---- MODULE Spec2Model ----
(***************************************************************************)
(* Model of src/jobs/sessionExpiry.ts: the daily rollover                  *)
(* (runSessionExpiryForDate, and runForDate inside scheduleSessionExpiry)  *)
(* and the midnight timer loop (scheduleNext, the returned cancel          *)
(* function).                                                              *)
(*                                                                         *)
(* The data store holds three tables: avals (AvaliacaoSCP), leitos (Leito) *)
(* and hist (HistoricoOcupacao).  Every awaited data-store call is one     *)
(* step of the run that issues it, and may fail.  Time is counted in ticks *)
(* of the reference zone's local clock; local midnights are the multiples  *)
(* of TicksPerDay and a calendar date is the index of its day.  The clock  *)
(* is an input: every DateTime.now() reads a value that is at least the    *)
(* previous reading, and a timer fires at or after its due time.           *)
(***************************************************************************)
EXTENDS Integers, Sequences, FiniteSets

\* ---------------------------------------------------------------- bounds
\* Rollover invocations (manual calls plus timer fires) in one behaviour.
MaxRuns == 2
\* Last instant of the clock.
MaxNow == 4
\* Resolution of the clock: ticks in one local day.
TicksPerDay == 2

\* ------------------------------------------------------- the store's rows
AvalIds == {1, 2}
LeitoIds == {1, 2, 3}
\* dataAplicacao values of the stored assessments (day indices).
Dates == {0, 1}
\* The beds an assessment may refer to; the other beds are never assessed.
AssessedLeitos == {1, 2}
\* a.leito of an assessment without a bed.
NoLeito == 0

\* StatusLeito: PENDENTE is the value the job writes; the beds start with the
\* statuses the job's doc comment names (VAGO, MANUT_*) or occupied.
PENDENTE == "PENDENTE"
\* StatusSessaoAvaliacao: EXPIRADA is the value the job writes.
EXPIRADA == "EXPIRADA"
ATIVA == "ATIVA"

VARIABLES
    avals,      \* AvaliacaoSCP table: id -> [dataAplicacao, leito, statusSessao]
    leitos,     \* Leito table: id -> status
    hist,       \* HistoricoOcupacao table: a set of rows, each with its own id
    runs,       \* every rollover invocation so far, in order of invocation
    timers,     \* the armed one-shot timers: [handle, due, armedAt]
    sched,      \* scheduleSessionExpiry's closure: started, firstHandle, ...
    now,        \* the latest reading of the clock (DateTime.now())
    avals0,     \* the store as it was at the start (for comparison only)
    leitos0

vars == <<avals, leitos, hist, runs, timers, sched, now, avals0, leitos0>>

\* ------------------------------------------------------------ time (luxon)
DayOf(t) == t \div TicksPerDay

\* now.plus({ days: 1 }).startOf("day")
NextMidnight(t) == (DayOf(t) + 1) * TicksPerDay

\* nextMidnight.toMillis() - now.toMillis()
Delay(t) == NextMidnight(t) - t

\* DateTime.now().setZone(ZONE).minus({ days: 1 }).startOf("day").toISODate()
YesterdayMutToday(t) == DayOf(t)
Yesterday(t) == DayOf(t) - 1

\* DateTime.fromISO(date, { zone }).startOf("day")
StartLocal(d) == d * TicksPerDay

\* startLocal.endOf("day"): the last instant of that day
EndLocal(d) == StartLocal(d) + TicksPerDay - 1

\* ------------------------------------------------------------- the rollover
RunIds == 1..Len(runs)

IsManual(r) == runs[r].kind = "manual"
IsSched(r) == runs[r].kind = "sched"
Settled(r) == runs[r].pc = "settled"
Active(r) == runs[r].pc /= "settled"
Succeeded(r) == Settled(r) /\ runs[r].failedAt = "none"

\* The ids of a set of numbers in increasing order (the order find returns).
RECURSIVE SortedSeq(_)
SortedSeq(S) ==
    IF S = {} THEN <<>>
    ELSE LET m == CHOOSE x \in S : \A y \in S : x <= y
         IN <<m>> \o SortedSeq(S \ {m})

\* avalRepo.find({ where: { dataAplicacao: date }, relations: [...] })
FindAvalsMutStatus(tbl, d) ==
    {a \in AvalIds : tbl[a].dataAplicacao = d /\ tbl[a].statusSessao /= EXPIRADA}
FindAvals(tbl, d) ==
    {a \in AvalIds : tbl[a].dataAplicacao = d}

\* One entry of historicos, from a fetched assessment with its bed loaded.
HistoricoMutStatusAfterReset(a, d, r) ==
    [ leito |-> avals[a].leito,
      leitoStatus |-> PENDENTE,
      inicio |-> StartLocal(d),
      fim |-> EndLocal(d),
      aval |-> a,
      id |-> <<r, 0>> ]
HistoricoMutWindowOfNow(a, d, r) ==
    [ leito |-> avals[a].leito,
      leitoStatus |-> leitos[avals[a].leito],
      inicio |-> StartLocal(DayOf(now)),
      fim |-> EndLocal(DayOf(now)),
      aval |-> a,
      id |-> <<r, 0>> ]
Historico(a, d, r) ==
    [ leito |-> avals[a].leito,
      leitoStatus |-> leitos[avals[a].leito],
      inicio |-> StartLocal(d),
      fim |-> EndLocal(d),
      aval |-> a,
      id |-> <<r, 0>> ]

\* for (const a of avals) { if (!a.leito) continue; ... historicos.push(h) }
\* (leitoIdsToReset is filled in the same loop and never read.)
RECURSIVE BuildHistoricos(_, _, _)
BuildHistoricosMutNoSkip(fetched, d, r) ==
    [i \in 1..Len(fetched) |->
        [ leito |-> avals[fetched[i]].leito,
          leitoStatus |-> IF avals[fetched[i]].leito = NoLeito THEN "null"
                          ELSE leitos[avals[fetched[i]].leito],
          inicio |-> StartLocal(d), fim |-> EndLocal(d),
          aval |-> fetched[i], id |-> <<r, 0>> ]]
BuildHistoricos(fetched, d, r) ==
    IF fetched = <<>> THEN <<>>
    ELSE IF avals[Head(fetched)].leito = NoLeito
         THEN BuildHistoricos(Tail(fetched), d, r)
         ELSE <<Historico(Head(fetched), d, r)>>
              \o BuildHistoricos(Tail(fetched), d, r)

\* histRepo.save(histRepo.create(h)): a new row, with a primary key of its
\* own.  The key is the pair (saving run, number of that run's save).
RowsOf(tbl, r) == {h \in tbl : h.id[1] = r}
Insert(tbl, h, r) ==
    tbl \cup {[h EXCEPT !.id = <<r, Cardinality(RowsOf(tbl, r)) + 1>>]}

\* leitoRepo.createQueryBuilder().update(Leito).set({ status: PENDENTE }).execute()
ResetAllLeitosMutKeepManut(tbl) ==
    [l \in LeitoIds |-> IF tbl[l] = "MANUT" THEN tbl[l] ELSE PENDENTE]
ResetAllLeitos(tbl) ==
    [l \in LeitoIds |-> PENDENTE]

\* avalRepo...update(AvaliacaoSCP).set({ statusSessao: EXPIRADA })
\*   .where('"dataAplicacao" = :d', { d: date }).execute()
ExpireAvalsMutNoWhere(tbl, d) ==
    [a \in AvalIds |-> [tbl[a] EXCEPT !.statusSessao = EXPIRADA]]
ExpireAvals(tbl, d) ==
    [a \in AvalIds |->
        IF tbl[a].dataAplicacao = d
        THEN [tbl[a] EXCEPT !.statusSessao = EXPIRADA]
        ELSE tbl[a]]

\* ------------------------------------------- the rollover, scheduler's copy
\* runForDate, the closure of scheduleSessionExpiry, has its own text of the
\* same steps; the operators below are translated from that text.
\* avalRepo.find({ where: { dataAplicacao: dateYYYYMMDD }, relations: [...] })
FindAvalsSched(tbl, d) ==
    {a \in AvalIds : tbl[a].dataAplicacao = d}

\* const h: Partial<HistoricoOcupacao> = { leito, leitoStatus, ..., inicio, fim }
HistoricoSched(a, d, r) ==
    [ leito |-> avals[a].leito,
      leitoStatus |-> leitos[avals[a].leito],
      inicio |-> StartLocal(d),
      fim |-> EndLocal(d),
      aval |-> a,
      id |-> <<r, 0>> ]

\* for (const a of avals) { if (!a.leito) continue; ... historicos.push(h) }
RECURSIVE BuildHistoricosSched(_, _, _)
BuildHistoricosSched(fetched, d, r) ==
    IF fetched = <<>> THEN <<>>
    ELSE IF avals[Head(fetched)].leito = NoLeito
         THEN BuildHistoricosSched(Tail(fetched), d, r)
         ELSE <<HistoricoSched(Head(fetched), d, r)>>
              \o BuildHistoricosSched(Tail(fetched), d, r)

\* const ent = histRepo.create(h as any); await histRepo.save(ent)
InsertSched(tbl, h, r) ==
    tbl \cup {[h EXCEPT !.id = <<r, Cardinality(RowsOf(tbl, r)) + 1>>]}

\* leitoRepo.createQueryBuilder().update(Leito).set({ status: PENDENTE }).execute()
ResetAllLeitosSchedMutKeepManut(tbl) ==
    [l \in LeitoIds |-> IF tbl[l] = "MANUT" THEN tbl[l] ELSE PENDENTE]
ResetAllLeitosSched(tbl) ==
    [l \in LeitoIds |-> PENDENTE]

\* avalRepo...update(AvaliacaoSCP).set({ statusSessao: EXPIRADA })
\*   .where('"dataAplicacao" = :d', { d: dateYYYYMMDD }).execute()
ExpireAvalsSched(tbl, d) ==
    [a \in AvalIds |->
        IF tbl[a].dataAplicacao = d
        THEN [tbl[a] EXCEPT !.statusSessao = EXPIRADA]
        ELSE tbl[a]]

\* ------------------------------------------------ which copy a run executes
FetchAndBuild(kind, d, r) ==
    IF kind = "manual"
    THEN BuildHistoricos(SortedSeq(FindAvals(avals, d)), d, r)
    ELSE BuildHistoricosSched(SortedSeq(FindAvalsSched(avals, d)), d, r)
InsertBy(kind, tbl, h, r) ==
    IF kind = "manual" THEN Insert(tbl, h, r) ELSE InsertSched(tbl, h, r)
ResetAllLeitosBy(kind, tbl) ==
    IF kind = "manual" THEN ResetAllLeitos(tbl) ELSE ResetAllLeitosSched(tbl)
ExpireAvalsBy(kind, tbl, d) ==
    IF kind = "manual" THEN ExpireAvals(tbl, d) ELSE ExpireAvalsSched(tbl, d)

\* catch (e) { console.warn(...); throw e; }   (runSessionExpiryForDate)
CatchManualMutSwallow == "resolved"
CatchManual == "rejected"

\* catch (e) { console.warn(...); }            (runForDate)
CatchSchedMutRethrow == "rejected"
CatchSched == "resolved"

\* How the promise of a run settles: failed is the name of the data-store
\* call that threw, or "none".
Outcome(kind, failed) ==
    IF failed = "none" THEN "resolved"
    ELSE IF kind = "manual" THEN CatchManual ELSE CatchSched

\* --------------------------------------------------------------- the timers
\* scheduleNext(): setTimeout(callback, delay) at time t, returning handle h.
\* armedAt records the clock reading the delay was computed from.
ScheduleNextMutFixedInterval(ts, h, t) ==
    ts \cup {[handle |-> h, due |-> t + TicksPerDay, armedAt |-> t]}
ScheduleNext(ts, h, t) ==
    ts \cup {[handle |-> h, due |-> t + Delay(t), armedAt |-> t]}

\* The timer callback starts: a one-shot timer is no longer armed, and the
\* callback arms nothing before runForDate settles.
TimersOnFireMutRearmFirst(ts, fired, h, t) == ScheduleNext(ts \ {fired}, h, t)
TimersOnFire(ts, fired, h, t) == ts \ {fired}

\* if (dateStr) await runForDate(dateStr); scheduleNext();
\* A rejected runForDate would throw out of the await and skip scheduleNext.
TimersAfterRun(ts, outcome, h, t) ==
    IF outcome = "resolved" THEN ScheduleNext(ts, h, t) ELSE ts

\* clearTimeout(firstHandle)
ClearTimeoutMutNoop(ts, h) == ts
ClearTimeoutMutAll(ts, h) == {}
ClearTimeout(ts, h) == {x \in ts : x.handle /= h}

\* ------------------------------------------------------------------- Init
\* The store holds any assessments and beds; no session has expired yet,
\* nothing has been archived, the scheduler has not been started.  The program
\* never looks at the id of an assessment, so the tables are taken up to a
\* renaming of the assessments: the first is the one with the earlier date or,
\* on the same date, with the lower bed.
Init ==
    /\ avals \in [AvalIds -> [dataAplicacao : Dates,
                              leito : AssessedLeitos \cup {NoLeito},
                              statusSessao : {ATIVA}]]
    /\ \/ avals[1].dataAplicacao < avals[2].dataAplicacao
       \/ /\ avals[1].dataAplicacao = avals[2].dataAplicacao
          /\ avals[1].leito <= avals[2].leito
    /\ leitos = [l \in LeitoIds |->
                    IF l = 1 THEN "OCUPADO" ELSE IF l = 2 THEN "MANUT" ELSE "VAGO"]
    /\ hist = {}
    /\ runs = <<>>
    /\ timers = {}
    /\ sched = [started |-> FALSE, firstHandle |-> 0, nextHandle |-> 1,
                cancel |-> "no", cancelRun |-> 0]
    /\ now = 0
    /\ avals0 = avals
    /\ leitos0 = leitos

\* A rollover invocation.  pc is the data-store call the run awaits next and
\* historicos the entries still to save; ops (the calls that succeeded),
\* failedAt (the call that threw) and outcome (how the promise settled) record
\* what the run did, and are read by no action.
NewRun(kind, d) ==
    [ kind |-> kind, date |-> d, pc |-> "find", historicos |-> <<>>,
      ops |-> <<>>, failedAt |-> "none", outcome |-> "pending" ]

\* The clock readings possible after the latest one.
Clock == now..MaxNow

\* A step of run r that does not settle it: no clock is read, no timer armed.
Continue(r, rec) ==
    /\ runs' = [runs EXCEPT ![r] = rec]
    /\ UNCHANGED <<timers, sched, now>>

\* The promise of run r settles, rec being the run's record at that point.
\* For a scheduled run the timer callback continues in the same turn of the
\* event loop (the continuation of an await is a microtask): scheduleNext
\* reads the clock and arms the next timer.
SettleRun(r, rec, failed) ==
    LET out == Outcome(rec.kind, failed)
    IN /\ runs' = [runs EXCEPT ![r] = [rec EXCEPT !.pc = "settled",
                                                  !.failedAt = failed,
                                                  !.outcome = out]]
       /\ IF rec.kind = "sched"
          THEN \E t \in Clock :
                 /\ now' = t
                 /\ timers' = TimersAfterRun(timers, out, sched.nextHandle, t)
                 /\ sched' = [sched EXCEPT !.nextHandle = @ + 1]
          ELSE UNCHANGED <<timers, sched, now>>

Logged(rec, op) == [rec EXCEPT !.ops = Append(@, op)]

\* The data-store call a run awaits after the call named done has succeeded,
\* left being the number of historicos still to save: the for loop over
\* historicos runs to its end, then the bed update, then the assessment update.
NextCallMutResetEarly(done, left) ==
    IF done = "find" THEN (IF left > 0 THEN "save" ELSE "resetLeitos")
    ELSE IF done = "save" THEN "resetLeitos"
    ELSE "expire"
NextCall(done, left) ==
    IF done \in {"find", "save"}
    THEN (IF left > 0 THEN "save" ELSE "resetLeitos")
    ELSE "expire"
NextCallSched(done, left) ==
    IF done \in {"find", "save"}
    THEN (IF left > 0 THEN "save" ELSE "resetLeitos")
    ELSE "expire"
NextCallBy(kind, done, left) ==
    IF kind = "manual" THEN NextCall(done, left) ELSE NextCallSched(done, left)

\* ---------------------------------------------------------------- actions
\* A caller invokes runSessionExpiryForDate(ds, d): the function runs up to
\* its first await, the find.  The caller awaits the promise: it starts no
\* manual rollover while its previous one is in flight.
RunManual(d) ==
    /\ Len(runs) < MaxRuns
    /\ \A r \in RunIds : IsManual(r) => Settled(r)
    /\ runs' = Append(runs, NewRun("manual", d))
    /\ UNCHANGED <<avals, leitos, hist, timers, sched, now, avals0, leitos0>>

\* scheduleSessionExpiry(ds), called at time t: const firstHandle = scheduleNext()
StartScheduler(t) ==
    /\ ~sched.started
    /\ now' = t
    /\ timers' = ScheduleNext(timers, sched.nextHandle, t)
    /\ sched' = [sched EXCEPT !.started = TRUE,
                              !.firstHandle = sched.nextHandle,
                              !.nextHandle = @ + 1]
    /\ UNCHANGED <<avals, leitos, hist, runs, avals0, leitos0>>

\* An armed timer fires at time t, at or after its due time: the callback
\* computes yesterday's date and calls runForDate, which runs up to its find
\* (toISODate of a valid DateTime is never null, so "if (dateStr)" holds).
TimerFire(tm, t) ==
    /\ tm \in timers
    /\ t >= tm.due
    /\ Len(runs) < MaxRuns
    /\ now' = t
    /\ timers' = TimersOnFire(timers, tm, sched.nextHandle, t)
    /\ runs' = Append(runs, NewRun("sched", Yesterday(t)))
    /\ sched' = IF timers' \subseteq timers THEN sched
                ELSE [sched EXCEPT !.nextHandle = @ + 1]
    /\ UNCHANGED <<avals, leitos, hist, avals0, leitos0>>

\* The caller of scheduleSessionExpiry calls the function it returned.
\* sched.cancel and sched.cancelRun record when it was called (before the
\* first fire, while a scheduled run was in flight and which, or later); they
\* are read by no action but this one, which models a single call.
Cancel ==
    /\ sched.started
    /\ sched.cancel = "no"
    /\ timers' = ClearTimeout(timers, sched.firstHandle)
    /\ LET inflight == {r \in RunIds : IsSched(r) /\ Active(r)}
       IN sched' = [sched EXCEPT
            !.cancel = IF inflight /= {} THEN "running"
                       ELSE IF \E r \in RunIds : IsSched(r) THEN "late"
                       ELSE "first",
            !.cancelRun = IF inflight /= {} THEN CHOOSE r \in inflight : TRUE
                          ELSE 0]
    /\ UNCHANGED <<avals, leitos, hist, runs, now, avals0, leitos0>>

\* await avalRepo.find(...), then the loop that builds historicos.
FindMutContinue(r, ok) ==
    /\ runs[r].pc = "find"
    /\ LET hs == IF ok
                 THEN FetchAndBuild(runs[r].kind, runs[r].date, r)
                 ELSE <<>>
           rec == IF ok THEN Logged(runs[r], "find")
                  ELSE [runs[r] EXCEPT !.failedAt = "find"]
       IN Continue(r, [rec EXCEPT
                         !.historicos = hs,
                         !.pc = NextCallBy(runs[r].kind, "find", Len(hs))])
    /\ UNCHANGED <<avals, leitos, hist, avals0, leitos0>>
Find(r, ok) ==
    /\ runs[r].pc = "find"
    /\ IF ok
       THEN LET hs == FetchAndBuild(runs[r].kind, runs[r].date, r)
            IN Continue(r, [Logged(runs[r], "find") EXCEPT
                              !.historicos = hs,
                              !.pc = NextCallBy(runs[r].kind, "find", Len(hs))])
       ELSE SettleRun(r, runs[r], "find")
    /\ UNCHANGED <<avals, leitos, hist, avals0, leitos0>>

\* await histRepo.save(histRepo.create(h)), for the next h of historicos.
Save(r, ok) ==
    /\ runs[r].pc = "save"
    /\ IF ok
       THEN /\ hist' = InsertBy(runs[r].kind, hist,
                                 Head(runs[r].historicos), r)
            /\ Continue(r, [Logged(runs[r], "save") EXCEPT
                              !.historicos = Tail(@),
                              !.pc = NextCallBy(runs[r].kind, "save",
                                         Len(runs[r].historicos) - 1)])
       ELSE /\ SettleRun(r, runs[r], "save")
            /\ UNCHANGED hist
    /\ UNCHANGED <<avals, leitos, avals0, leitos0>>

\* await leitoRepo...update(Leito).set({ status: PENDENTE }).execute()
ResetLeitos(r, ok) ==
    /\ runs[r].pc = "resetLeitos"
    /\ IF ok
       THEN /\ leitos' = ResetAllLeitosBy(runs[r].kind, leitos)
            /\ Continue(r, [Logged(runs[r], "resetLeitos") EXCEPT
                              !.pc = NextCallBy(runs[r].kind, "resetLeitos", 0)])
       ELSE /\ SettleRun(r, runs[r], "resetLeitos")
            /\ UNCHANGED leitos
    /\ UNCHANGED <<avals, hist, avals0, leitos0>>

\* await avalRepo...update(AvaliacaoSCP).set({ statusSessao: EXPIRADA })
\*   .where(dataAplicacao = date).execute(); then the function returns.
Expire(r, ok) ==
    /\ runs[r].pc = "expire"
    /\ IF ok
       THEN /\ avals' = ExpireAvalsBy(runs[r].kind, avals, runs[r].date)
            /\ SettleRun(r, Logged(runs[r], "expire"), "none")
       ELSE /\ SettleRun(r, runs[r], "expire")
            /\ UNCHANGED avals
    /\ UNCHANGED <<leitos, hist, avals0, leitos0>>

Next ==
    \/ \E d \in Dates : RunManual(d)
    \/ \E t \in Clock : StartScheduler(t)
    \/ \E tm \in timers, t \in Clock : TimerFire(tm, t)
    \/ Cancel
    \/ \E r \in RunIds, ok \in BOOLEAN : Find(r, ok)
    \/ \E r \in RunIds, ok \in BOOLEAN : Save(r, ok)
    \/ \E r \in RunIds, ok \in BOOLEAN : ResetLeitos(r, ok)
    \/ \E r \in RunIds, ok \in BOOLEAN : Expire(r, ok)

Spec == Init /\ [][Next]_vars

\* ------------------------------------------- the rest of the application
\* The assessments are owned and written by the rest of the application.
\* One write of it while a rollover for date d is between its fetch and its
\* bulk expiry: assessment a gets date d and bed l (NoLeito for none) with an
\* active session.  A row that comes to date d this way stands for a created
\* one.
AppPutAval(a, d, l) ==
    /\ \E r \in RunIds : /\ runs[r].pc \in {"save", "resetLeitos", "expire"}
                         /\ runs[r].date = d
    /\ \A b \in AvalIds : /\ avals[b].dataAplicacao = avals0[b].dataAplicacao
                          /\ avals[b].leito = avals0[b].leito
    /\ avals[a].dataAplicacao /= d \/ avals[a].leito /= l
    /\ avals' = [avals EXCEPT ![a] = [dataAplicacao |-> d, leito |-> l,
                                      statusSessao |-> ATIVA]]
    /\ UNCHANGED <<leitos, hist, runs, timers, sched, now, avals0, leitos0>>

NextApp ==
    \/ Next
    \/ \E a \in AvalIds, d \in Dates, l \in AssessedLeitos \cup {NoLeito} :
          AppPutAval(a, d, l)

SpecApp == Init /\ [][NextApp]_vars

\* ============================================================== properties
\* The rows of hist that run r saved for assessment a.
RowsFor(r, a) == {h \in hist : h.id[1] = r /\ h.aval = a}
RowsOfAval(a) == {h \in hist : h.aval = a}
SchedRuns == {r \in RunIds : IsSched(r)}
ActiveRuns == {r \in RunIds : Active(r)}
HasLeito(a) == avals[a].leito /= NoLeito

\* C1: a successful rollover for date D (manual or scheduled) has created
\* exactly one snapshot for each assessment of D that has a bed, a snapshot of
\* that assessment's bed, and none for an assessment of D without a bed or
\* for an assessment of another date.
C1_OneSnapshotPerAvalWithLeito ==
    \A r \in RunIds : Succeeded(r) =>
        \A a \in AvalIds :
            /\ Cardinality(RowsFor(r, a)) =
                 IF avals[a].dataAplicacao = runs[r].date /\ HasLeito(a)
                 THEN 1 ELSE 0
            /\ \A h \in RowsFor(r, a) : h.leito = avals[a].leito

\* A scheduled run succeeded for a date that has one assessment with a bed
\* and one without: its only snapshot is the one of the assessment with a bed.
C1_Witness ==
    \E r \in RunIds :
        /\ IsSched(r) /\ Succeeded(r)
        /\ \E a, b \in AvalIds :
            /\ avals[a].dataAplicacao = runs[r].date /\ HasLeito(a)
            /\ avals[b].dataAplicacao = runs[r].date /\ ~HasLeito(b)
            /\ RowsOf(hist, r) = RowsFor(r, a)
            /\ Cardinality(RowsOf(hist, r)) = 1

C4_ManualRethrows ==
    \A r \in RunIds : (IsManual(r) /\ Settled(r)) =>
        /\ runs[r].failedAt /= "none" => runs[r].outcome = "rejected"
        /\ runs[r].failedAt = "none" => runs[r].outcome = "resolved"

\* Two manual rollovers have rejected, one on a failed save and one on a
\* failed bulk update.
C4_Witness ==
    \E r, q \in RunIds :
        /\ IsManual(r) /\ runs[r].failedAt = "save"
        /\ runs[r].outcome = "rejected"
        /\ IsManual(q) /\ runs[q].failedAt \in {"resetLeitos", "expire"}
        /\ runs[q].outcome = "rejected"

\* C5: every scheduled rollover that settles, failed at whatever step or not,
\* resolves (its failure is swallowed), and once the latest one has settled a
\* new timer, due at the next local midnight, is armed: the loop goes on after
\* a failed run, whether or not the cancel function was called meanwhile.
C5_SwallowsAndRearms ==
    \A r \in SchedRuns : Settled(r) =>
        /\ runs[r].outcome = "resolved"
        /\ (\A q \in SchedRuns : q <= r) =>
              \E tm \in timers :
                  /\ tm.due = NextMidnight(now)
                  /\ tm.handle /= sched.firstHandle

\* The scheduler fired again after a scheduled rollover that failed.
C5_Witness ==
    \E r, q \in SchedRuns :
        /\ r < q
        /\ Settled(r)
        /\ runs[r].failedAt /= "none"
        /\ sched.cancel = "no"

\* C6 (as claimed): when the cancel function is called while a scheduled
\* rollover is executing, that rollover completes and the loop is not re-armed:
\* once it has settled no timer is armed and the scheduler triggers no later
\* rollover.
C6_CancelWhileRunningStopsLoop ==
    (sched.cancel = "running" /\ Settled(sched.cancelRun)) =>
        /\ timers = {}
        /\ \A q \in SchedRuns : q <= sched.cancelRun

\* C7: when the cancel function is called while the first timer is armed and
\* has not fired, the scheduler never invokes a rollover and never arms
\* another timer.
C7_CancelBeforeFirstFire ==
    sched.cancel = "first" => (timers = {} /\ SchedRuns = {})

\* Cancelled before the first fire: no timer is armed, and the only rollovers
\* are the manual ones, which have all settled.
C7_Witness ==
    /\ sched.started
    /\ sched.cancel = "first"
    /\ sched.firstHandle /= 0
    /\ timers = {}
    /\ Len(runs) = MaxRuns
    /\ \A r \in RunIds : Settled(r)

\* C8: a rollover whose find fails, manual or scheduled, settles on that step
\* having written nothing: the step leaves the three tables unchanged, the run
\* has completed no data-store call and owns no snapshot, and it takes no
\* further step.
C8_StepAfterFailedFind(r) ==
    /\ runs'[r].pc = "settled"
    /\ runs'[r].ops = <<>>
    /\ RowsOf(hist', r) = {}
    /\ (runs'[r] /= runs[r]) =>
          /\ runs[r].pc = "find"
          /\ avals' = avals /\ leitos' = leitos /\ hist' = hist

C8_FailedFindWritesNothing ==
    [][\A r \in RunIds : runs'[r].failedAt = "find" => C8_StepAfterFailedFind(r)]_vars

\* A manual and a scheduled rollover both failed on their find.
C8_Witness ==
    \E r, q \in RunIds :
        /\ IsManual(r) /\ runs[r].failedAt = "find"
        /\ IsSched(q) /\ runs[q].failedAt = "find"
        /\ hist = {} /\ avals = avals0 /\ leitos = leitos0

\* C9: when exactly two rollovers have run for a date and both succeeded, every
\* assessment of that date with a bed has exactly two snapshots, one by each
\* run (and an assessment without a bed none): the second run neither skips
\* the archived assessments nor the already expired ones.
C9_TwoRunsTwoRows ==
    \A r, q \in RunIds :
        ( /\ r < q
          /\ runs[r].date = runs[q].date
          /\ Succeeded(r) /\ Succeeded(q)
          /\ \A p \in RunIds : runs[p].date = runs[r].date => p \in {r, q} )
        => \A a \in AvalIds : avals[a].dataAplicacao = runs[r].date =>
              /\ Cardinality(RowsOfAval(a)) = IF HasLeito(a) THEN 2 ELSE 0
              /\ HasLeito(a) => /\ Cardinality(RowsFor(r, a)) = 1
                                /\ Cardinality(RowsFor(q, a)) = 1

\* The second rollover of a date started after the first had expired the
\* date's assessments, and an assessment with a bed has two snapshots.
C9_Witness ==
    \E r, q \in RunIds, a \in AvalIds :
        /\ r < q
        /\ runs[r].date = runs[q].date
        /\ Succeeded(r) /\ Succeeded(q)
        /\ avals[a].dataAplicacao = runs[r].date /\ HasLeito(a)
        /\ \E h \in RowsFor(q, a) : h.leitoStatus = PENDENTE
        /\ Cardinality(RowsOfAval(a)) = 2

\* C10 (as claimed): never more than one rollover invocation in progress, and
\* no timer armed while a scheduled rollover is running.
C10_AtMostOneRollover ==
    /\ Cardinality(ActiveRuns) <= 1
    /\ (\E r \in SchedRuns : Active(r)) => timers = {}

\* C10 (amended): never more than one scheduled rollover in progress, no timer
\* armed while one is running, and never more than one timer armed.
C10_AtMostOneScheduledRollover ==
    /\ Cardinality({r \in SchedRuns : Active(r)}) <= 1
    /\ (\E r \in SchedRuns : Active(r)) => timers = {}
    /\ Cardinality(timers) <= 1

\* A scheduled rollover is running, past its find, while a manual rollover
\* is in progress too; no timer is armed.
C10_Witness ==
    \E q \in SchedRuns, m \in RunIds :
        /\ Active(q) /\ runs[q].pc /= "find"
        /\ IsManual(m) /\ Active(m)
        /\ timers = {}

\* C11 (as claimed): a rollover does not overwrite a bed in maintenance: a bed
\* that was in maintenance keeps that status.
C11_ManutPreserved ==
    \A l \in LeitoIds : leitos0[l] = "MANUT" => leitos[l] = "MANUT"

\* C12: every snapshot of a rollover for date D has the window of D and of D
\* alone: inicio is the local midnight that starts D, fim the last instant of
\* D, so that the window holds exactly the instants of D (a whole day),
\* whichever assessment it archives, whichever run saved it and whenever.
C12_WindowIsTheDay ==
    \A h \in hist :
        LET d == runs[h.id[1]].date
        IN /\ h.inicio = d * TicksPerDay
           /\ h.fim = (d + 1) * TicksPerDay - 1
           /\ DayOf(h.inicio) = d /\ DayOf(h.fim) = d
           /\ DayOf(h.inicio - 1) = d - 1 /\ DayOf(h.fim + 1) = d + 1

\* Two snapshots of one date, of different assessments, saved by different
\* runs, the later one by a scheduled run after the day was over: same window.
C12_Witness ==
    \E h, g \in hist :
        /\ h.aval /= g.aval
        /\ h.id[1] < g.id[1]
        /\ IsSched(g.id[1])
        /\ runs[h.id[1]].date = runs[g.id[1]].date
        /\ now > g.fim
        /\ h.inicio = g.inicio /\ h.fim = g.fim

\* C13: every armed timer targets the first local midnight strictly after the
\* clock reading it was armed at, which is the latest reading: its delay is
\* positive and at most one day, less than a day when armed off a midnight and
\* a whole day when armed exactly at one.
C13_TimerTargetsNextMidnight ==
    \A tm \in timers :
        LET delay == tm.due - tm.armedAt
        IN /\ tm.armedAt = now
           /\ delay > 0 /\ delay <= TicksPerDay
           /\ tm.due % TicksPerDay = 0
           /\ \A m \in 0..(MaxNow + TicksPerDay) :
                 (m % TicksPerDay = 0 /\ m > tm.armedAt) => m >= tm.due
           /\ (tm.armedAt % TicksPerDay /= 0) => delay < TicksPerDay
           /\ (tm.armedAt % TicksPerDay = 0) => delay = TicksPerDay

\* The first timer fired at a midnight, its rollover settled at once and the
\* timer armed then, exactly at that midnight, waits a whole day.
C13_Witness ==
    \E q \in SchedRuns, tm \in timers :
        /\ Settled(q)
        /\ tm.handle /= sched.firstHandle
        /\ tm.armedAt = (runs[q].date + 1) * TicksPerDay
        /\ tm.due - tm.armedAt = TicksPerDay

\* C14: a call of the cancel function after the first timer has fired changes
\* nothing: the call leaves the armed timers as they are; from then on a timer
\* goes away only by firing, which starts a scheduled rollover; and whenever
\* no scheduled rollover is in flight a timer is armed for the next local
\* midnight, as if the function had not been called.
C14_StepAfterLateCancel ==
    /\ sched.cancel = "no" => timers' = timers
    /\ (timers' /= timers /\ timers \ timers' /= {}) =>
          /\ Len(runs') = Len(runs) + 1
          /\ runs'[Len(runs')].kind = "sched"
          /\ runs'[Len(runs')].pc = "find"
    /\ (\A r \in DOMAIN runs' : runs'[r].kind = "sched" => runs'[r].pc = "settled")
          => \E tm \in timers' : tm.due = NextMidnight(now')

C14_CancelAfterFirstFireNoEffect ==
    [][sched'.cancel \in {"late", "running"} => C14_StepAfterLateCancel]_vars

\* The cancel function was called after the first scheduled rollover had
\* settled, with the second timer armed; that timer has fired since and the
\* second scheduled rollover is running.
C14_Witness ==
    /\ sched.cancel = "late"
    /\ \E r, q \in SchedRuns : r < q /\ Settled(r) /\ Active(q)

\* The run with record rec has completed the data-store call op.
Did(rec, op) == \E i \in DOMAIN rec.ops : rec.ops[i] = op
SavesOf(rec) == Cardinality({i \in DOMAIN rec.ops : rec.ops[i] = "save"})

\* C15: the writes of a rollover are ordered.  A step of run r changes the
\* beds only when r has no snapshot left to save and has persisted one row per
\* completed save; it changes the assessments only when r has reset the beds.
\* The step on which a save fails changes neither beds nor assessments and r
\* has by then neither reset nor expired; the step on which the bed reset fails
\* changes no assessment and r has not expired; and a run that has expired has
\* reset the beds and has no snapshot left to save.
C15_StepInOrder(r) ==
    /\ (runs'[r] /= runs[r] /\ leitos' /= leitos) =>
          /\ runs[r].pc = "resetLeitos"
          /\ runs[r].historicos = <<>>
          /\ ~Did(runs[r], "resetLeitos") /\ ~Did(runs[r], "expire")
    /\ (runs'[r] /= runs[r] /\ avals' /= avals) =>
          /\ runs[r].pc = "expire"
          /\ Did(runs[r], "resetLeitos")
    /\ (runs'[r] /= runs[r] /\ runs'[r].failedAt = "save") =>
          /\ leitos' = leitos /\ avals' = avals
          /\ ~Did(runs'[r], "resetLeitos") /\ ~Did(runs'[r], "expire")
    /\ (runs'[r] /= runs[r] /\ runs'[r].failedAt = "resetLeitos") =>
          /\ leitos' = leitos /\ avals' = avals
          /\ ~Did(runs'[r], "expire")
    /\ Did(runs'[r], "resetLeitos") =>
          /\ runs'[r].historicos = <<>>
          /\ Cardinality(RowsOf(hist', r)) = SavesOf(runs'[r])
    /\ Did(runs'[r], "expire") => Did(runs'[r], "resetLeitos")

C15_WritesInOrder ==
    [][\A r \in RunIds : C15_StepInOrder(r)]_vars

\* One rollover failed on its second save and another on the bed reset, after
\* its two saves: three snapshots are stored, and beds and assessments are as
\* they were.
C15_Witness ==
    \E r, q \in RunIds :
        /\ runs[r].failedAt = "save" /\ SavesOf(runs[r]) = 1
        /\ runs[q].failedAt = "resetLeitos" /\ SavesOf(runs[q]) = 2
        /\ Cardinality(hist) = 3
        /\ leitos = leitos0 /\ avals = avals0

\* The step is a timer fire: it appends a scheduled rollover to runs.
IsFire ==
    /\ Len(runs') = Len(runs) + 1
    /\ runs'[Len(runs')].kind = "sched"

\* The timer that fires on the step was armed on the day the previous
\* scheduled rollover was triggered: that rollover settled before the
\* following local midnight (for the first timer there is no previous one).
PreviousSettledInTime(tm) ==
    \A q \in SchedRuns :
        (\A p \in SchedRuns : p <= q) => DayOf(tm.armedAt) = runs[q].date + 1

\* The fire processes the date that ended at the timer's target midnight, the
\* day the timer was armed on: the date after the one of the previous fire, or
\* the day the scheduler was started on.
ProcessesNextDate(tm) ==
    /\ runs'[Len(runs')].date = DayOf(tm.armedAt)
    /\ \A q \in SchedRuns :
          (\A p \in SchedRuns : p <= q) =>
              runs'[Len(runs')].date = runs[q].date + 1

\* C16 (as claimed): a fire processes the date before the local date at fire
\* time, and when the timer fires at or after its target midnight and the
\* previous rollover settled before the following midnight, the fire processes
\* the next date: none is skipped.
C16_FireAsClaimed ==
    IsFire =>
        /\ runs'[Len(runs')].date = DayOf(now') - 1
        /\ \A tm \in timers \ timers' :
              (now' >= tm.due /\ PreviousSettledInTime(tm))
                  => ProcessesNextDate(tm)

C16_FireOnItsDay ==
    IsFire =>
        /\ runs'[Len(runs')].date = DayOf(now') - 1
        /\ \A q \in SchedRuns : runs[q].date < runs'[Len(runs')].date
        /\ \A tm \in timers \ timers' :
              /\ now' >= tm.due
              /\ (DayOf(now') = DayOf(tm.due) /\ PreviousSettledInTime(tm))
                    => ProcessesNextDate(tm)

RowsModId(r) ==
    {[leito |-> h.leito, leitoStatus |-> h.leitoStatus,
      inicio |-> h.inicio, fim |-> h.fim, aval |-> h.aval] : h \in RowsOf(hist, r)}

\* C17: every step a rollover takes is the step the other text of the
\* rollover (the scheduled one for a manual run, the manual one for a
\* scheduled run) would have taken from the same store with the same date:
\* the same historicos built from the same assessments, the same row
\* inserted, the same beds and the same assessments after the bulk updates,
\* and the same call next.  They differ in how the promise settles after a
\* failure: the manual one rejects, the scheduled one resolves.
C17_SameStep(r) ==
    LET d == runs[r].date
        pc == runs[r].pc
        other == IF IsManual(r) THEN "sched" ELSE "manual"
        done == Len(runs'[r].ops) > Len(runs[r].ops)
    IN /\ (done /\ pc = "find") =>
            /\ FindAvals(avals, d) = FindAvalsSched(avals, d)
            /\ runs'[r].historicos = FetchAndBuild(other, d, r)
       /\ (done /\ pc = "save") =>
            hist' = InsertBy(other, hist, Head(runs[r].historicos), r)
       /\ (done /\ pc = "resetLeitos") =>
            leitos' = ResetAllLeitosBy(other, leitos)
       /\ (done /\ pc = "expire") =>
            avals' = ExpireAvalsBy(other, avals, d)
       /\ (done /\ pc /= "expire") =>
            runs'[r].pc = NextCallBy(other, pc, Len(runs'[r].historicos))
       /\ (runs'[r].pc = "settled" /\ pc /= "settled") =>
            /\ runs'[r].failedAt = "none" =>
                  runs'[r].outcome = Outcome(other, "none")
            /\ runs'[r].failedAt /= "none" =>
                  /\ runs'[r].outcome /= Outcome(other, runs'[r].failedAt)
                  /\ runs'[r].outcome =
                        IF IsManual(r) THEN "rejected" ELSE "resolved"

C17_ManualEquivSched ==
    [][\A r \in RunIds : C17_SameStep(r)]_vars

\* A manual and a scheduled rollover of the same date both failed on the bed
\* reset after the same calls: they left the same snapshots, the beds and the
\* assessments untouched, and the manual one rejected while the scheduled one
\* resolved.
C17_Witness ==
    \E r, q \in RunIds :
        /\ IsManual(r) /\ IsSched(q)
        /\ runs[r].date = runs[q].date
        /\ runs[r].failedAt = "resetLeitos" /\ runs[q].failedAt = "resetLeitos"
        /\ runs[r].ops = runs[q].ops
        /\ SavesOf(runs[r]) = 2
        /\ RowsModId(r) = RowsModId(q)
        /\ leitos = leitos0 /\ avals = avals0
        /\ runs[r].outcome = "rejected" /\ runs[q].outcome = "resolved"

\* A snapshot without its primary key.
ModId(h) ==
    [leito |-> h.leito, leitoStatus |-> h.leitoStatus,
     inicio |-> h.inicio, fim |-> h.fim, aval |-> h.aval]

\* C18: the bed status of a snapshot is the status the bed had at the fetch.
\* The step that fetches builds entries carrying the status each bed has in
\* the store at that step; the entries of a run do not change while they wait
\* to be saved; a save stores the entry as it is; no step, the bed reset
\* included, changes or removes a stored row; and a stored row records pending
\* only if another rollover had reset the beds.
C18_StepKeepsStatus(r) ==
    /\ (runs[r].pc = "find" /\ runs'[r].pc /= "find") =>
          \A i \in DOMAIN runs'[r].historicos :
              runs'[r].historicos[i].leitoStatus
                  = leitos[runs'[r].historicos[i].leito]
    /\ (runs[r].pc /= "find" /\ runs'[r].pc /= "settled") =>
          \/ runs'[r].historicos = runs[r].historicos
          \/ /\ runs[r].pc = "save"
             /\ runs'[r].historicos = Tail(runs[r].historicos)
    /\ (runs'[r] /= runs[r] /\ runs[r].pc = "save" /\ hist' /= hist) =>
          {ModId(h) : h \in hist' \ hist} = {ModId(Head(runs[r].historicos))}
    /\ \A h \in RowsOf(hist', r) :
          /\ h.leitoStatus \in {leitos0[h.leito], PENDENTE}
          /\ h.leitoStatus = PENDENTE =>
                \E q \in RunIds \ {r} : Did(runs'[q], "resetLeitos")

C18_SnapshotStatusAtFetch ==
    [][hist \subseteq hist' /\ \A r \in RunIds : C18_StepKeepsStatus(r)]_vars

\* A first rollover archived the occupied bed as occupied and reset it; a
\* second rollover of the same date archived it as pending.  The bed is
\* pending and the first snapshot still says occupied.
C18_Witness ==
    \E h, g \in hist :
        /\ h.id[1] < g.id[1]
        /\ h.leito = g.leito
        /\ leitos0[h.leito] = "OCUPADO"
        /\ h.leitoStatus = "OCUPADO"
        /\ g.leitoStatus = PENDENTE
        /\ leitos[h.leito] = PENDENTE
        /\ Succeeded(h.id[1])

\* C19 (as claimed): with the application writing assessments while a
\* rollover is in progress, every assessment with a bed that the bulk expiry
\* of the rollover sets to expired has a snapshot created by that rollover.
C19_ExpiryStepArchived(r) ==
    (runs[r].pc = "expire" /\ Did(runs'[r], "expire")) =>
        \A a \in AvalIds :
            ( /\ avals[a].statusSessao /= EXPIRADA
              /\ avals'[a].statusSessao = EXPIRADA
              /\ avals'[a].leito /= NoLeito )
            => \E h \in RowsOf(hist', r) : h.aval = a

C19_NoExpiryWithoutSnapshot ==
    [][\A r \in RunIds : C19_ExpiryStepArchived(r)]_vars

====
